---- MODULE Spec2Model ----
(***************************************************************************)
(* Model of crates/bevy_editor_pls_default_windows/src/gizmos.rs:          *)
(*   - GizmoWindow::viewport_toolbar_ui, collect_gizmo_config, draw_gizmo  *)
(*     (the per-frame transform gizmo pass), and                           *)
(*   - add_gizmo_markers (the indicator-mesh synthesis system).            *)
(*                                                                         *)
(* Numbers are binary fixed-point values: the integer n stands for n/Den. *)
(* Sums, products and quotients are exact or undefined (the model stops),  *)
(* so no rounding is ever modelled.  The scene is planar: a rotation is a  *)
(* number of quarter turns about the z axis, a scale and a translation are *)
(* 2-vectors, an affine transform is a 2x2 matrix (two column vectors, as  *)
(* glam stores it) plus a translation.  Quarter turns and diagonal scales  *)
(* keep every matrix monomial, so that column lengths are exact too.       *)
(***************************************************************************)
EXTENDS Integers, Sequences, FiniteSets, TLC

----------------------------------------------------------------------------
(* Exact fixed-point arithmetic                                            *)

Abs(n) == IF n < 0 THEN -n ELSE n

\* The denominator of every number.
Den == 2^8

\* n \div d when d divides n, undefined otherwise.
ExactDiv(n, d) == IF d # 0 /\ n % Abs(d) = 0
                  THEN (IF d < 0 THEN -(n \div (-d)) ELSE n \div d)
                  ELSE CHOOSE q \in {} : TRUE

Q(n) == n * Den
QAdd(a, b) == a + b
QSub(a, b) == a - b
QMul(a, b) == ExactDiv(a * b, Den)
QDiv(a, b) == ExactDiv(a * Den, b)
QNeg(a) == -a
QAbs(a) == Abs(a)
QSignum(a) == IF a < 0 THEN Q(-1) ELSE Q(1)

----------------------------------------------------------------------------
(* Vectors, matrices, affine transforms (glam / bevy_transform semantics)  *)

VAdd(u, v) == <<QAdd(u[1], v[1]), QAdd(u[2], v[2])>>
VScale(u, k) == <<QMul(u[1], k), QMul(u[2], k)>>

\* Euclidean length of a vector with at most one non-zero component.
VLength(u) == QAdd(QAbs(u[1]), QAbs(u[2]))

\* A matrix is [x_axis, y_axis]: its two columns.
MatMulVec(m, v) == VAdd(VScale(m.x_axis, v[1]), VScale(m.y_axis, v[2]))
MatMul(a, b) == [x_axis |-> MatMulVec(a, b.x_axis), y_axis |-> MatMulVec(a, b.y_axis)]
Determinant(m) ==
    QSub(QMul(m.x_axis[1], m.y_axis[2]), QMul(m.y_axis[1], m.x_axis[2]))
MatInverse(m) ==
    LET det == Determinant(m)
    IN  [x_axis |-> <<QDiv(m.y_axis[2], det), QDiv(QNeg(m.x_axis[2]), det)>>,
         y_axis |-> <<QDiv(QNeg(m.y_axis[1]), det), QDiv(m.x_axis[1], det)>>]

\* The matrix of a rotation by r quarter turns.
RotationMatrix(r) ==
    CASE r = 0 -> [x_axis |-> <<Q(1), Q(0)>>, y_axis |-> <<Q(0), Q(1)>>]
      [] r = 1 -> [x_axis |-> <<Q(0), Q(1)>>, y_axis |-> <<Q(-1), Q(0)>>]
      [] r = 2 -> [x_axis |-> <<Q(-1), Q(0)>>, y_axis |-> <<Q(0), Q(-1)>>]
      [] r = 3 -> [x_axis |-> <<Q(0), Q(-1)>>, y_axis |-> <<Q(1), Q(0)>>]

\* Quat::from_rotation_axes on orthonormal axes: the quarter turn that
\* carries the unit x vector onto x_axis.
RotationFromAxes(x_axis, y_axis) ==
    CASE x_axis = <<Q(1), Q(0)>> -> 0
      [] x_axis = <<Q(0), Q(1)>> -> 1
      [] x_axis = <<Q(-1), Q(0)>> -> 2
      [] x_axis = <<Q(0), Q(-1)>> -> 3

\* Affine: GlobalTransform * GlobalTransform.
AffineMul(a, b) ==
    [matrix |-> MatMul(a.matrix, b.matrix),
     translation |-> VAdd(MatMulVec(a.matrix, b.translation), a.translation)]

\* Affine3A::inverse.
AffineInverse(a) ==
    LET inv == MatInverse(a.matrix)
    IN  [matrix |-> inv,
         translation |-> MatMulVec(inv, <<QNeg(a.translation[1]), QNeg(a.translation[2])>>)]

\* Transform::compute_affine: rotation * diag(scale), then translation.
compute_affine(t) ==
    LET rot == RotationMatrix(t.rotation)
    IN  [matrix |-> [x_axis |-> VScale(rot.x_axis, t.scale[1]),
                     y_axis |-> VScale(rot.y_axis, t.scale[2])],
         translation |-> t.translation]

\* GlobalTransform::to_scale_rotation_translation: the x scale carries the
\* sign of the determinant, the rotation is read from the normalised axes.
to_scale_rotation_translation(a) ==
    LET det == Determinant(a.matrix)
        scale == <<QMul(VLength(a.matrix.x_axis), QSignum(det)),
                   VLength(a.matrix.y_axis)>>
        rotation == RotationFromAxes(VScale(a.matrix.x_axis, QDiv(Q(1), scale[1])),
                                     VScale(a.matrix.y_axis, QDiv(Q(1), scale[2])))
    IN  [scale |-> scale, rotation |-> rotation, translation |-> a.translation]

IdentityAffine == compute_affine([scale |-> <<Q(1), Q(1)>>, rotation |-> 0,
                                  translation |-> <<Q(0), Q(0)>>])

----------------------------------------------------------------------------
(* Bounds of the model                                                     *)

\* Scene entities that can be selected.
NumEntities == 3
\* Entities that can carry the ActiveEditorCamera tag.
NumCameras == 2
\* UI frames run.
MaxFrames == 1
\* Entities seen by the marker system.
NumMarkerTargets == 2

Entities == 1..NumEntities
Cameras == 1..NumCameras
NoParent == 0
\* Option: None is the empty sequence, Some(x) the sequence of x alone.  A
\* component an entity may lack is an Option too.
None == <<>>
Some(x) == <<x>>
NoComponent == None

\* Local transforms the scene starts with: a rotated and non-uniformly
\* scaled one, a mirrored one.
RotatedLocal ==
    [scale |-> <<Q(2), Q(1)>>, rotation |-> 1, translation |-> <<Q(1), Q(0)>>]
MirroredLocal ==
    [scale |-> <<Q(1), Q(-1)>>, rotation |-> 0, translation |-> <<Q(0), Q(1)>>]
LocalTransforms == {RotatedLocal, MirroredLocal}

\* World transforms a drag can produce.
DragTransforms ==
    { [scale |-> <<Q(1), Q(1)>>, rotation |-> 1, translation |-> <<Q(2), Q(0)>>] }

----------------------------------------------------------------------------
(* State                                                                   *)

VARIABLES
    parent,             \* Parent component: entity -> parent entity, or NoParent
    transform,          \* Transform component: entity -> local transform, or NoComponent
    global_transform,   \* GlobalTransform component: entity -> affine, or NoComponent
    active_cameras,     \* cameras tagged ActiveEditorCamera
    camera_components,  \* cameras that carry both GlobalTransform and Projection
    gizmo_config,       \* configuration held by GizmoState.gizmo
    phase,              \* "ui": the toolbar pass is next; "post": it has run
    frames,             \* toolbar passes run so far
    selected,           \* selected_entities of the last pass
    new_config,         \* what collect_gizmo_config returned in the last pass
    interact_args,      \* the batches handed to gizmo.interact in the last pass
    interact_result,    \* what gizmo.interact returned in the last pass
    parent_affine,      \* entity -> the parent_affine the write-back used for it
    panicked,           \* an unwrap failed
    components,         \* marker system: target -> set of component names
    children            \* marker system: target -> names of its indicator children

gizmo_vars == <<parent, transform, global_transform, active_cameras, camera_components,
                gizmo_config, phase, frames, selected, new_config, interact_args,
                interact_result, parent_affine, panicked>>
marker_vars == <<components, children>>
vars == <<gizmo_vars, marker_vars>>

----------------------------------------------------------------------------
(* The host engine: transform propagation and cameras                      *)

HasBoth(tf, g, e) == tf[e] # NoComponent /\ g[e] # NoComponent

\* bevy's propagate_transforms / sync_simple_transforms: an entity is reached
\* when it and every ancestor carry Transform and GlobalTransform; a reached
\* entity's GlobalTransform becomes parent global * local, any other
\* GlobalTransform keeps its stored value.
RECURSIVE Reached(_, _, _)
Reached(tf, g, e) ==
    /\ HasBoth(tf, g, e)
    /\ parent[e] # NoParent => Reached(tf, g, parent[e])

RECURSIVE WorldAffine(_, _, _)
WorldAffine(tf, g, e) ==
    IF ~Reached(tf, g, e) THEN g[e]
    ELSE IF parent[e] = NoParent THEN Some(compute_affine(tf[e][1]))
    ELSE Some(AffineMul(WorldAffine(tf, g, parent[e])[1], compute_affine(tf[e][1])))

Propagated(tf, g) == [e \in Entities |-> WorldAffine(tf, g, e)]

\* The GlobalTransform and the Projection of a camera entity.
CameraGlobal(c) ==
    compute_affine([scale |-> <<Q(1), Q(1)>>, rotation |-> 0,
                    translation |-> <<Q(c), Q(0)>>])
CameraProjection(c) == c

\* cast of every element from f32 to f64: every f32 value is an f64 value.
convert_array_f32_to_f64(a) == [i \in DOMAIN a |-> a[i]]

----------------------------------------------------------------------------
(* GizmoState                                                              *)

camera_gizmo_active == TRUE
gizmo_mode == {"Translate"}
\* transform_gizmo_egui::Gizmo::default(): identity matrices.
DefaultConfig ==
    [modes |-> {}, view_matrix |-> IdentityAffine, projection_matrix |-> 0]

----------------------------------------------------------------------------
(* collect_gizmo_config                                                    *)

\* A get_single that settles for the first item of a query with several.
get_first(items) ==
    IF items # {} THEN Some(CHOOSE c \in items : \A d \in items : c <= d) ELSE None

\* Query::get_single: the single item of the query, or an error.
get_single(items) ==
    IF Cardinality(items) = 1 THEN Some(CHOOSE c \in items : TRUE) ELSE None

\* query_filtered::<(&GlobalTransform, &Projection), With<ActiveEditorCamera>>
CameraQuery == active_cameras \cap camera_components

collect_gizmo_config(mode) ==
    LET cam == get_single(CameraQuery)
    IN  IF cam = None THEN None
        ELSE Some([modes |-> mode,
                   view_matrix |-> AffineInverse(CameraGlobal(cam[1])),
                   projection_matrix |-> CameraProjection(cam[1])])

----------------------------------------------------------------------------
(* draw_gizmo                                                              *)

RECURSIVE FilterSeq(_, _)
\* selected_entities.iter().filter_map(..): the entities with a
\* GlobalTransform, in selection order.
FilterSeq(sel, g) ==
    IF sel = <<>> THEN <<>>
    ELSE IF g[Head(sel)] = NoComponent THEN FilterSeq(Tail(sel), g)
    ELSE <<Head(sel)>> \o FilterSeq(Tail(sel), g)

\* A batch built from every entity with a GlobalTransform, selected or not.
all_transform_and_entity_unselected(sel, g) ==
    LET batch == FilterSeq([i \in 1..NumEntities |-> i], g)
    IN  [i \in 1..Len(batch) |->
            [transform |-> to_scale_rotation_translation(g[batch[i]][1]),
             entity |-> batch[i]]]

\* all_transform_and_entity: (gizmo transform, entity) pairs.
all_transform_and_entity(sel, g) ==
    LET batch == FilterSeq(sel, g)
    IN  [i \in 1..Len(batch) |->
            [transform |-> to_scale_rotation_translation(g[batch[i]][1]),
             entity |-> batch[i]]]

all_transform(pairs) == [i \in 1..Len(pairs) |-> pairs[i].transform]

\* The factors of line 254 in the other order.
ParentAffineSwapped(global_affine, local) ==
    AffineMul(AffineInverse(compute_affine(local)), global_affine)

\* line 254: global_affine * transform.compute_affine().inverse()
ParentAffine(global_affine, local) ==
    AffineMul(global_affine, AffineInverse(compute_affine(local)))

\* lines 255-275: (inverse_parent_transform * global_transform).into()
NewLocal(parent_aff, result) ==
    to_scale_rotation_translation(
        AffineMul(AffineInverse(parent_aff), compute_affine(result)))

\* The one value of a singleton set: each step's values are computed once
\* and then named, as the loop's `let` bindings do.
The(S) == CHOOSE x \in S : TRUE

Min(a, b) == IF a < b THEN a ELSE b

\* A write-back that pairs the entities with the returned transforms in
\* reverse order.
RECURSIVE WriteBackReversed(_, _, _, _, _, _)
WriteBackReversed(tf, used, g, pairs, transforms, i) ==
    IF i > Min(Len(pairs), Len(transforms))
    THEN [transform |-> tf, parent_affine |-> used, panicked |-> FALSE]
    ELSE LET entity == pairs[i].entity
         IN  IF tf[entity] = NoComponent
             THEN [transform |-> tf, parent_affine |-> used, panicked |-> TRUE]
             ELSE LET p == ParentAffine(g[entity][1], tf[entity][1])
                      result == transforms[Len(transforms) + 1 - i]
                  IN  WriteBackReversed([tf EXCEPT ![entity] = Some(NewLocal(p, result))],
                                        [used EXCEPT ![entity] = Some(p)],
                                        g, pairs, transforms, i + 1)

\* A write-back that passes over an entity without Transform.
RECURSIVE WriteBackSkipsMissing(_, _, _, _, _, _)
WriteBackSkipsMissing(tf, used, g, pairs, transforms, i) ==
    IF i > Min(Len(pairs), Len(transforms))
    THEN [transform |-> tf, parent_affine |-> used, panicked |-> FALSE]
    ELSE LET entity == pairs[i].entity
         IN  IF tf[entity] = NoComponent
             THEN WriteBackSkipsMissing(tf, used, g, pairs, transforms, i + 1)
             ELSE LET p == ParentAffine(g[entity][1], tf[entity][1])
                  IN  WriteBackSkipsMissing(
                        [tf EXCEPT ![entity] = Some(NewLocal(p, transforms[i]))],
                        [used EXCEPT ![entity] = Some(p)],
                        g, pairs, transforms, i + 1)

\* A write-back that reads the world transform from the scene graph as the
\* writes made so far leave it.
RECURSIVE WriteBackLiveWorld(_, _, _, _, _, _)
WriteBackLiveWorld(tf, used, g, pairs, transforms, i) ==
    IF i > Min(Len(pairs), Len(transforms))
    THEN [transform |-> tf, parent_affine |-> used, panicked |-> FALSE]
    ELSE LET entity == pairs[i].entity
         IN  IF tf[entity] = NoComponent
             THEN [transform |-> tf, parent_affine |-> used, panicked |-> TRUE]
             ELSE LET p == ParentAffine(WorldAffine(tf, g, entity)[1], tf[entity][1])
                  IN  WriteBackLiveWorld(
                        [tf EXCEPT ![entity] = Some(NewLocal(p, transforms[i]))],
                        [used EXCEPT ![entity] = Some(p)],
                        g, pairs, transforms, i + 1)

\* The write-back loop over all_transform_and_entity.iter().zip(transforms),
\* from pair i on.  A missing Transform fails the unwrap of line 253 and
\* leaves the writes already made.
RECURSIVE WriteBack(_, _, _, _, _, _)
WriteBack(tf, used, g, pairs, transforms, i) ==
    IF i > Min(Len(pairs), Len(transforms))
    THEN [transform |-> tf, parent_affine |-> used, panicked |-> FALSE]
    ELSE LET entity == pairs[i].entity
         IN  IF tf[entity] = NoComponent
             THEN [transform |-> tf, parent_affine |-> used, panicked |-> TRUE]
             ELSE The({WriteBack(ntf, nused, g, pairs, transforms, i + 1) :
                        <<ntf, nused>> \in
                          {<<[tf EXCEPT ![entity] = Some(NewLocal(p, transforms[i]))],
                             [used EXCEPT ![entity] = Some(p)]>> :
                                p \in {ParentAffine(g[entity][1], tf[entity][1])}}})

\* A draw_gizmo that writes the submitted transforms back when the routine
\* returns nothing.
draw_gizmo_writes_on_none(tf, g, sel, answer) ==
    LET pairs == all_transform_and_entity(sel, g)
        nothing == [e \in Entities |-> None]
    IN  WriteBack(tf, nothing, g, pairs,
                  IF answer = None THEN all_transform(pairs) ELSE answer[1], 1)

\* draw_gizmo with the answer of gizmo.interact given.
draw_gizmo(tf, g, sel, answer) ==
    LET pairs == all_transform_and_entity(sel, g)
        nothing == [e \in Entities |-> None]
    IN  IF answer = None
        THEN [transform |-> tf, parent_affine |-> nothing, panicked |-> FALSE]
        ELSE The({WriteBack(tf, nothing, g, ps, answer[1], 1) : ps \in {pairs}})

\* What gizmo.interact may return for a batch: nothing, or one transform per
\* submitted transform (the submitted one, or a dragged one).
RECURSIVE Tuples(_, _)
Tuples(batch, i) ==
    IF i > Len(batch) THEN {<<>>}
    ELSE {<<t>> \o rest : t \in DragTransforms \cup {batch[i]},
                          rest \in Tuples(batch, i + 1)}

InteractAnswers(batch) == {None} \cup {Some(ts) : ts \in Tuples(batch, 1)}

\* HierarchyWindow's selection: distinct entities in some order.
Selections ==
    {s \in UNION {[1..n -> Entities] : n \in 0..NumEntities} :
        \A i, j \in DOMAIN s : i # j => s[i] # s[j]}

----------------------------------------------------------------------------
(* GizmoWindow::viewport_toolbar_ui                                        *)

viewport_toolbar_ui(sel, answer) ==
    /\ phase = "ui"
    /\ ~panicked
    /\ frames < MaxFrames
    /\ camera_gizmo_active
    /\ \E config \in {collect_gizmo_config(gizmo_mode)},
          drawn \in {draw_gizmo(transform, global_transform, sel, answer)} :
           /\ new_config' = config
           /\ gizmo_config' = IF config # None THEN config[1] ELSE gizmo_config
           /\ selected' = sel
           /\ interact_args' =
                <<all_transform(all_transform_and_entity(sel, global_transform))>>
           /\ interact_result' = answer
           /\ transform' = drawn.transform
           /\ parent_affine' = drawn.parent_affine
           /\ panicked' = drawn.panicked
    /\ phase' = "post"
    /\ frames' = frames + 1
    /\ UNCHANGED <<parent, global_transform, active_cameras, camera_components>>
    /\ UNCHANGED marker_vars

\* The host calls the pass once per frame, with the selection of the
\* hierarchy window; gizmo.interact answers as the pointer input dictates.
ToolbarPass ==
    /\ phase = "ui"
    /\ \E sel \in Selections :
        \E answer \in InteractAnswers(
                all_transform(all_transform_and_entity(sel, global_transform))) :
            viewport_toolbar_ui(sel, answer)

\* The rest of the host's frame: PostUpdate recomputes every
\* GlobalTransform, and the locals of the pass are gone.
propagate_transforms ==
    /\ phase = "post"
    /\ ~panicked
    /\ global_transform' = Propagated(transform, global_transform)
    /\ phase' = "ui"
    /\ selected' = <<>>
    /\ new_config' = None
    /\ interact_args' = <<>>
    /\ interact_result' = None
    /\ parent_affine' = [e \in Entities |-> None]
    /\ UNCHANGED <<parent, transform, active_cameras, camera_components, gizmo_config,
                   frames, panicked>>
    /\ UNCHANGED marker_vars

\* The editor moves the ActiveEditorCamera tag between two passes.
switch_camera(tagged) ==
    /\ phase = "ui"
    /\ tagged # active_cameras
    /\ active_cameras' = tagged
    /\ UNCHANGED <<parent, transform, global_transform, camera_components, gizmo_config,
                   phase, frames, selected, new_config, interact_args, interact_result,
                   parent_affine, panicked>>
    /\ UNCHANGED marker_vars

SwitchCamera == \E tagged \in SUBSET Cameras : switch_camera(tagged)

----------------------------------------------------------------------------
(* add_gizmo_markers                                                       *)

Targets == 1..NumMarkerTargets
TargetComponents == {"PointLight", "DirectionalLight", "Camera", "EditorCamera"}

\* GizmoMarkerQuery<T, F>: With<T>, Without<HasGizmoMarker>, F
GizmoMarkerQuery(with, without) ==
    {t \in Targets : /\ with \in components[t]
                     /\ "HasGizmoMarker" \notin components[t]
                     /\ without \notin components[t]}

\* The three queries are evaluated on the world as the system starts; the
\* commands queued by the three loops are applied after the system.
add_gizmo_markers ==
    LET point_lights == GizmoMarkerQuery("PointLight", "HasGizmoMarker")
        directional_lights == GizmoMarkerQuery("DirectionalLight", "HasGizmoMarker")
        cameras == GizmoMarkerQuery("Camera", "EditorCamera")
        spawned(t) ==
            (IF t \in point_lights THEN <<"PointLight Gizmo">> ELSE <<>>)
            \o (IF t \in directional_lights THEN <<"DirectionalLight Gizmo">> ELSE <<>>)
            \o (IF t \in cameras THEN <<"Camera Gizmo">> ELSE <<>>)
        inserted(t) ==
            (IF t \in point_lights \cup directional_lights \cup cameras
                THEN {"HasGizmoMarker"} ELSE {})
            \cup (IF t \in cameras
                    THEN {"Visibility", "InheritedVisibility", "ViewVisibility"} ELSE {})
    IN  /\ components' = [t \in Targets |-> components[t] \cup inserted(t)]
        /\ children' = [t \in Targets |-> children[t] \o spawned(t)]
        /\ UNCHANGED gizmo_vars

\* The application adds a component to an entity, or removes one.
host_insert(t, c) ==
    /\ c \notin components[t]
    /\ components' = [components EXCEPT ![t] = @ \cup {c}]
    /\ UNCHANGED <<children, gizmo_vars>>

host_remove(t, c) ==
    /\ c \in components[t]
    /\ components' = [components EXCEPT ![t] = @ \ {c}]
    /\ UNCHANGED <<children, gizmo_vars>>

HostInsert == \E t \in Targets, c \in TargetComponents : host_insert(t, c)
HostRemove == \E t \in Targets, c \in TargetComponents : host_remove(t, c)

----------------------------------------------------------------------------
(* Specifications                                                          *)

InitMarkers ==
    /\ components = [t \in Targets |-> {}]
    /\ children = [t \in Targets |-> <<>>]

InitPass ==
    /\ phase = "ui"
    /\ frames = 0
    /\ selected = <<>>
    /\ new_config = None
    /\ interact_args = <<>>
    /\ interact_result = None
    /\ parent_affine = [e \in Entities |-> None]
    /\ panicked = FALSE

\* The hierarchies: a chain 1 <- 2 <- 3 .. and a root with every other
\* entity as its child.
ChainHierarchy == [e \in Entities |-> IF e = 1 THEN NoParent ELSE e - 1]
StarHierarchy == [e \in Entities |-> IF e = 1 THEN NoParent ELSE 1]

\* The scenes: the chain under a rotated root and the star under a mirrored
\* root, the two local transforms alternating from entity to entity.
Scenes ==
    { [hierarchy |-> ChainHierarchy, odd |-> RotatedLocal, even |-> MirroredLocal],
      [hierarchy |-> StarHierarchy, odd |-> MirroredLocal, even |-> RotatedLocal] }

\* A scene with at most one entity (the root or its first child) without
\* Transform or without GlobalTransform, and the GlobalTransforms as
\* propagation leaves them (from GlobalTransform::default()).
InitScene ==
    \E scene \in Scenes :
    /\ parent = scene.hierarchy
    /\ \E lacking \in {<<0, "none">>} \cup ({1, 2} \X {"Transform", "GlobalTransform"}) :
          /\ transform =
                [e \in Entities |->
                    IF lacking = <<e, "Transform">> THEN NoComponent
                    ELSE IF e % 2 = 1 THEN Some(scene.odd) ELSE Some(scene.even)]
          /\ global_transform =
                Propagated(transform,
                    [e \in Entities |->
                        IF lacking = <<e, "GlobalTransform">> THEN NoComponent
                        ELSE Some(IdentityAffine)])

\* Scenes under the editor's one active camera, which carries
\* GlobalTransform and Projection.
Init ==
    /\ InitScene
    /\ active_cameras = {1}
    /\ camera_components = Cameras
    /\ InitPass
    /\ gizmo_config = DefaultConfig
    /\ InitMarkers

Next == ToolbarPass \/ propagate_transforms

Spec == Init /\ [][Next]_vars

\* Camera switching over a scene of one root entity with transforms (the
\* other entities carry neither Transform nor GlobalTransform): camera 1
\* is active and carries GlobalTransform and Projection, the other cameras
\* may or may not.  The pass may be any pass of the session: the gizmo holds
\* its default configuration or the one an earlier pass stored.
InitCameras ==
    /\ parent = [e \in Entities |-> NoParent]
    /\ \E a \in LocalTransforms :
          /\ transform = [e \in Entities |-> IF e = 1 THEN Some(a) ELSE NoComponent]
          /\ global_transform =
                [e \in Entities |-> IF e = 1 THEN Some(compute_affine(a)) ELSE NoComponent]
    /\ active_cameras = {1}
    /\ camera_components \in {cs \in SUBSET Cameras : 1 \in cs}
    /\ InitPass
    /\ gizmo_config \in {DefaultConfig} \cup
            {[modes |-> gizmo_mode,
              view_matrix |-> AffineInverse(CameraGlobal(c)),
              projection_matrix |-> CameraProjection(c)] : c \in camera_components}
    /\ InitMarkers

NextCameras == ToolbarPass \/ propagate_transforms \/ SwitchCamera

SpecCameras == InitCameras /\ [][NextCameras]_vars

\* The marker system on its own world.
InitMarkerWorld ==
    /\ parent = [e \in Entities |-> NoParent]
    /\ transform = [e \in Entities |-> NoComponent]
    /\ global_transform = [e \in Entities |-> NoComponent]
    /\ active_cameras = {}
    /\ camera_components = {}
    /\ InitPass
    /\ gizmo_config = DefaultConfig
    /\ InitMarkers

NextMarkers == add_gizmo_markers \/ HostInsert \/ HostRemove

SpecMarkers == InitMarkerWorld /\ [][NextMarkers]_vars

----------------------------------------------------------------------------
(* Vocabulary of the properties                                            *)

Range(s) == {s[i] : i \in DOMAIN s}

\* A step of the toolbar pass.
ToolbarStep == phase = "ui" /\ phase' = "post"

\* The selected entities that carry a GlobalTransform, in selection order.
Submitted(sel) == SelectSeq(sel, LAMBDA e : global_transform[e] # NoComponent)

\* The index of entity e in the batch of selection sel.
IndexIn(sel, e) == CHOOSE i \in 1..Len(Submitted(sel)) : Submitted(sel)[i] = e

\* The entities the last pass wrote.
Written == {e \in Entities : parent_affine[e] # None}

RECURSIVE Ancestors(_)
Ancestors(e) ==
    IF parent[e] = NoParent THEN {} ELSE {parent[e]} \cup Ancestors(parent[e])

Siblings(e) == {s \in Entities : s # e /\ parent[s] = parent[e] /\ parent[e] # NoParent}

Eligible(comps) ==
    \/ "PointLight" \in comps
    \/ "DirectionalLight" \in comps
    \/ ("Camera" \in comps /\ "EditorCamera" \notin comps)

----------------------------------------------------------------------------
(* Properties                                                              *)

\* C1: a toolbar pass in a frame with zero or with two or more entities
\* tagged ActiveEditorCamera leaves every local Transform as it was.
C1_NoCameraNoWrite ==
    [][(ToolbarStep /\ Cardinality(active_cameras) # 1) => transform' = transform]_vars

\* C2: after a run of add_gizmo_markers every eligible entity has exactly one
\* indicator child, and a run that finds every eligible entity marked spawns
\* nothing.
C2_OneIndicatorPerEligible ==
    [][add_gizmo_markers =>
        /\ \A t \in Targets : Eligible(components'[t]) => Len(children'[t]) = 1
        /\ (\A t \in Targets : Eligible(components[t]) => "HasGizmoMarker" \in components[t])
                => children' = children]_vars

C4_BatchOrder ==
    [][ToolbarStep =>
        LET batch == Submitted(selected')
        IN  /\ Len(interact_args') = 1
            /\ interact_args'[1] =
                 [i \in 1..Len(batch) |->
                    to_scale_rotation_translation(global_transform[batch[i]][1])]
            /\ \A e \in Entities \ Range(batch) : transform'[e] = transform[e]
            /\ (interact_result' # None /\ ~panicked') =>
                 \A i \in 1..Len(batch) :
                    /\ parent_affine'[batch[i]] # None
                    /\ transform'[batch[i]] =
                         Some(NewLocal(parent_affine'[batch[i]][1], interact_result'[1][i]))]_vars

C4_Witness ==
    /\ phase = "post"
    /\ ~panicked
    /\ interact_result # None
    /\ Len(selected) = NumEntities
    /\ Len(Submitted(selected)) = NumEntities - 1
    /\ selected[1] > selected[2]
    /\ \E i, j \in 1..Len(Submitted(selected)) :
          interact_result[1][i] # interact_result[1][j]

\* C5: when the routine returns for an entity the transform that was submitted
\* for it, the write-back stores the local Transform the entity had.
C5_NoOpRoundTrip ==
    [][(ToolbarStep /\ interact_result' # None /\ ~panicked') =>
        \A i \in 1..Len(Submitted(selected')) :
            interact_result'[1][i] = interact_args'[1][i]
                => transform'[Submitted(selected')[i]] = transform[Submitted(selected')[i]]]_vars

\* C6 as stated: collect_gizmo_config returns None exactly when the number of
\* entities tagged ActiveEditorCamera is not one; a returned configuration
\* replaces the stored one, None leaves the stored one.
C6_TaggedCount ==
    [][ToolbarStep =>
        IF Cardinality(active_cameras) = 1
        THEN new_config' # None /\ gizmo_config' = new_config'[1]
        ELSE new_config' = None /\ gizmo_config' = gizmo_config]_vars

\* C6 amended: collect_gizmo_config returns None exactly when the number of
\* entities tagged ActiveEditorCamera that also carry GlobalTransform and
\* Projection is not one; a returned configuration replaces the stored one,
\* None leaves the stored one.
C6_QueryCount ==
    [][ToolbarStep =>
        IF Cardinality({c \in active_cameras : c \in camera_components}) = 1
        THEN new_config' # None /\ gizmo_config' = new_config'[1]
        ELSE new_config' = None /\ gizmo_config' = gizmo_config]_vars

C6_Witness ==
    /\ phase = "post"
    /\ Cardinality(active_cameras) = 1
    /\ new_config = None
    /\ gizmo_config # DefaultConfig

\* C7: the pass fails exactly when the routine returned transforms and an
\* entity of the batch has no Transform; otherwise every entity of the batch
\* is processed, also when other selected entities have no GlobalTransform.
C7_OnlyMissingTransformIsFatal ==
    phase = "post" =>
        LET batch == Submitted(selected)
        IN  /\ panicked <=> (/\ interact_result # None
                             /\ \E i \in 1..Len(batch) : transform[batch[i]] = NoComponent)
            /\ (interact_result # None /\ ~panicked) => Written = Range(batch)

C7_Witness ==
    /\ phase = "post"
    /\ panicked
    /\ Len(selected) > 1
    /\ Written # {}

\* C8: a pass in which the routine returns nothing, the selection is empty or
\* no selected entity has a GlobalTransform changes no local Transform.
C8_NothingReturnedNoWrite ==
    [][(/\ ToolbarStep
        /\ \/ interact_result' = None
           \/ selected' = <<>>
           \/ \A e \in Range(selected') : global_transform[e] = NoComponent)
        => transform' = transform]_vars

C8_Witness ==
    /\ phase = "post"
    /\ interact_result = None
    /\ Len(Submitted(selected)) > 1
    /\ gizmo_config # DefaultConfig

\* C9: the parent affine used for each written entity is Wcur * inverse(Lcur)
\* on the scene as it was before the first write of the pass.
C9_ParentAffineFromSnapshot ==
    [][ToolbarStep =>
        \A e \in Entities :
            parent_affine'[e] # None =>
                parent_affine'[e][1] =
                    AffineMul(global_transform[e][1],
                              AffineInverse(compute_affine(transform[e][1])))]_vars

C9_Witness ==
    /\ phase = "post"
    /\ \E e, f \in Written :
        /\ (parent[f] = e \/ (parent[f] = parent[e] /\ parent[e] # NoParent /\ e # f))
        /\ IndexIn(selected, e) < IndexIn(selected, f)
        /\ interact_result[1][IndexIn(selected, e)] \in DragTransforms

\* C10 as stated: after the write-back and the recomputation of the world
\* transforms, the world transform of every written entity is the one the
\* routine returned for it.
C10_WorldIsReturned ==
    (phase = "post" /\ ~panicked) =>
        \A e \in Written :
            WorldAffine(transform, global_transform, e)
                = Some(compute_affine(interact_result[1][IndexIn(selected, e)]))

\* C10 amended: the same for every written entity that is reached by
\* propagation (it and its ancestors carry Transform and GlobalTransform)
\* and none of whose ancestors was written in the same pass.
C10_WorldIsReturnedUnlessAncestorWritten ==
    (phase = "post" /\ ~panicked) =>
        \A e \in Written :
            (Reached(transform, global_transform, e) /\ Ancestors(e) \cap Written = {})
            => WorldAffine(transform, global_transform, e)
                = Some(compute_affine(interact_result[1][IndexIn(selected, e)]))

C10_Witness ==
    /\ phase = "post"
    /\ ~panicked
    /\ \E e \in Written :
        /\ parent[e] # NoParent
        /\ Reached(transform, global_transform, e)
        /\ Ancestors(e) \cap Written = {}
        /\ interact_result[1][IndexIn(selected, e)] \in DragTransforms

====
